---- MODULE Spec2Model ----
(***************************************************************************)
(* AnalysisData (quanalys/acquisition_utils/analysis_data.py): the         *)
(* dictionary-like container over a .h5 file, its read-only / lock model,  *)
(* the `editing` decorator, dirty-key tracking and the save protocol.      *)
(*                                                                         *)
(* A call of a method is one atomic step: the module is single-threaded.   *)
(* A method is an operator from the object (a record `w` of its fields,    *)
(* the disk and the codec calls made so far in the call) to the object     *)
(* after the call; `w.exc` is the exception the call raised, if any.       *)
(***************************************************************************)
EXTENDS Integers, Sequences, FiniteSets, TLC

\* ------------------------------------------------------------------ bounds
\* Longest keyword list of update(**kwds) and longest key list of
\* lock_data(keys) / clean_lock(remove_keys).
MaxKwds == 2
\* Number of method calls made on the container after its construction.
MaxCalls == 2

\* ------------------------------------------------------------------ inputs
Keys == {"a", "b", "c"}
\* A name that starts with '_' (analysis_data.py:190): a plain object attribute.
ReservedNames == {"_x"}
AttrNames == Keys \cup ReservedNames

\* Values a caller passes: an int, a tuple and an array handle.
PlainArgs == {"1", "(2,)"}
H5Arg == "H5NpArray"
ValueArgs == PlainArgs \cup {H5Arg}
\* The array handle after __init__filepath__(filepath, filekey) bound it.
H5Bound == "H5NpArray@file"
\* Python's None as a value of a mapping.
None == "None"

\* Paths are strings, modelled as sequences of characters. NoPath is None.
NoPath == <<"None">>
EmptyStr == << >>
Suffix == <<".", "h", "5">>
PathD == <<"d">>
PathDh5 == <<"d", ".", "h", "5">>
PathDh == <<"d", "h">>
InitPathArgs == {NoPath, PathD, PathDh5}
SavePathArgs == {NoPath, PathDh}

EmptyDict == [k \in {} |-> None]
DiskNoFile == [f \in {} |-> EmptyDict]
DiskWithD == [f \in {PathDh5} |-> [k \in {"a", "b"} |-> IF k = "a" THEN "1" ELSE "[2]"]]
InitialDisks == {DiskNoFile, DiskWithD}

\* ------------------------------------------------------------------ exceptions
NoExc == "-"
ReadOnlyKeyError == "TypeError: Cannot set a read-only attribute"
ReadOnlySaveError == "ValueError: Cannot save opened in a read-only mode"
NoFilepathError == "ValueError: Should provide filepath"
LockError == "ValueError: Cannot lock, everything is locked by read_only mode"
UnlockError == "ValueError: Cannot unlock, global read_only mode"
H5NoFileError == "ValueError: Cannot create a H5NpArray object without a file"
H5NoSaveOnEditError == "ValueError: Cannot use H5NpArray if save_on_edit=False"
KeyErrorExc == "KeyError"
AttributeErrorExc == "AttributeError"
CodecError == "OSError: save_dict failed"
InitModeError == "ValueError: Cannot open file in read_only mode and overwrite it"
InitExistsError == "ValueError: File with the same name already exists"
InitMissingError == "ValueError: Cannot open file in read_only mode if file does not exist"

Raise(w, e) == [w EXCEPT !.exc = e]
Ok(w) == w.exc = NoExc

\* ------------------------------------------------------------------ str helpers
\* str.rstrip('.h5'): drops every trailing character that is one of . h 5
RECURSIVE rstrip_h5(_)
rstrip_h5(s) ==
    IF Len(s) > 0 /\ s[Len(s)] \in {".", "h", "5"}
    THEN rstrip_h5(SubSeq(s, 1, Len(s) - 1))
    ELSE s

\* `a or b` on Optional[str]: None and '' are falsy.
StrOr(a, b) == IF a = NoPath \/ a = EmptyStr THEN b ELSE a

\* ------------------------------------------------------------------ dict helpers
dict_get(d, k, default) == IF k \in DOMAIN d THEN d[k] ELSE default
dict_set(d, k, v) == [x \in DOMAIN d \cup {k} |-> IF x = k THEN v ELSE d[x]]
dict_pop(d, k) == [x \in DOMAIN d \ {k} |-> d[x]]
dict_update(d, e) == [x \in DOMAIN d \cup DOMAIN e |-> IF x \in DOMAIN e THEN e[x] ELSE d[x]]

\* ------------------------------------------------------------------ read_only
\* _read_only is True, False or a set of keys.
RoTrue == [tag |-> "True", keys |-> {}]
RoFalse == [tag |-> "False", keys |-> {}]
RoSet(S) == [tag |-> "set", keys |-> S]
\* The argument read_only of __init__ may also be None.
RoNone == [tag |-> "None", keys |-> {}]
ReadOnlyArgs == {RoNone, RoTrue, RoFalse, RoSet({}), RoSet({"a"})}
\* Python truth value of a read_only value.
Truthy(ro) == ro.tag = "True" \/ (ro.tag = "set" /\ ro.keys # {})

\* ------------------------------------------------------------------ collaborators
\* h5py_utils.transform_to_possible_formats: a tuple becomes a list, the
\* other values are storable as they are.
transform_to_possible_formats(v) == IF v = "(2,)" THEN "[2]" ELSE v

isinstance_H5NpArray(v) == v \in {H5Arg, H5Bound}

\* H5NpArray.__init__filepath__(filepath, filekey): binds the handle.
__init__filepath__(v) == H5Bound

\* h5py_utils.open_h5(filename): the content of the file.
open_h5(files, filename) == files[filename]

\* The content of a file after the codec merged `data` into it: a key mapped
\* to None is removed from the file, any other key is (re)written.
merge_into_file(old, data) ==
    LET gone == {k \in DOMAIN data : data[k] = None}
        kept == (DOMAIN old \cup DOMAIN data) \ gone
    IN [k \in kept |-> IF k \in DOMAIN data THEN data[k] ELSE old[k]]

\* h5py_utils.save_dict(filename, data). `io` is whether the write succeeds;
\* a failed write raises and leaves the file as it was.
save_dict(w, filename, data, io) ==
    LET called == [w EXCEPT !.calls = Append(@, [filename |-> filename, data |-> data])]
        old == IF filename \in DOMAIN called.files THEN called.files[filename] ELSE EmptyDict
        new == merge_into_file(old, data)
    IN IF io
       THEN [called EXCEPT !.files =
                [f \in DOMAIN @ \cup {filename} |-> IF f = filename THEN new ELSE @[f]]]
       ELSE Raise(called, CodecError)

\* h5py_utils.output_dict_structure(data): the type of every key's value.
TypeOf(v) == IF v = "1" THEN "int" ELSE IF v = "[2]" THEN "list" ELSE "H5NpArray"
output_dict_structure(data) == [k \in DOMAIN data |-> TypeOf(data[k])]
ReprNone == [cached |-> FALSE, text |-> EmptyDict]

\* ------------------------------------------------------------------ AnalysisData
_clean_precalculated_results(w) == [w EXCEPT !.repr = ReprNone]

__add_key(w, key) ==
    [w EXCEPT !.attrs = @ \cup {key}, !.last_update = @ \cup {key}]

\* set.remove raises KeyError on a missing key, before _last_update is touched.
__del_key(w, key) ==
    IF key \notin w.attrs
    THEN Raise(w, KeyErrorExc)
    ELSE [w EXCEPT !.attrs = @ \ {key}, !.last_update = @ \cup {key}]

\* Faulty variant: only the global read-only flag protects, a set of locked keys is ignored.
__check_read_only_true_global_only(w, key) == w.read_only.tag = "True"

__check_read_only_true(w, key) ==
    Truthy(w.read_only) /\ (w.read_only.tag = "True" \/ key \in w.read_only.keys)

\* Returns the path without extension, or raises (exc set).
_check_if_filepath_was_set(filepath, filepath2) ==
    LET fp == StrOr(filepath, filepath2)
    IN IF fp = NoPath
       THEN [exc |-> NoFilepathError, path |-> NoPath]
       ELSE [exc |-> NoExc, path |-> rstrip_h5(fp)]

\* Faulty variant: save without the read-only guard of its first statement.
save_unguarded(w, just_update, filepath, io) ==
    LET last_update == w.last_update
        w1 == [w EXCEPT !.last_data_saved = TRUE, !.last_update = {}]
        fp == _check_if_filepath_was_set(filepath, w1.filepath)
    IN IF fp.exc # NoExc
       THEN Raise(w1, fp.exc)
       ELSE IF ~just_update
            THEN save_dict(w1, fp.path \o Suffix, w1.data, io)
            ELSE save_dict(w1, fp.path \o Suffix,
                           [key \in last_update |-> dict_get(w1.data, key, None)], io)

\* Faulty variant: save hands over the dirty keys without taking them.
save_keeps_dirty(w, just_update, filepath, io) ==
    IF w.read_only.tag = "True"
    THEN Raise(w, ReadOnlySaveError)
    ELSE LET last_update == w.last_update
             w1 == [w EXCEPT !.last_data_saved = TRUE]
             fp == _check_if_filepath_was_set(filepath, w1.filepath)
         IN IF fp.exc # NoExc
            THEN Raise(w1, fp.exc)
            ELSE IF ~just_update
                 THEN save_dict(w1, fp.path \o Suffix, w1.data, io)
                 ELSE save_dict(w1, fp.path \o Suffix,
                                [key \in last_update |-> dict_get(w1.data, key, None)], io)

save(w, just_update, filepath, io) ==
    IF w.read_only.tag = "True"
    THEN Raise(w, ReadOnlySaveError)
    ELSE LET last_update == w.last_update
             w1 == [w EXCEPT !.last_data_saved = TRUE, !.last_update = {}]
             fp == _check_if_filepath_was_set(filepath, w1.filepath)
         IN IF fp.exc # NoExc
            THEN Raise(w1, fp.exc)
            ELSE IF ~just_update
                 THEN save_dict(w1, fp.path \o Suffix, w1.data, io)
                 ELSE save_dict(w1, fp.path \o Suffix,
                                [key \in last_update |-> dict_get(w1.data, key, None)], io)

\* The decorator `editing`, before the decorated function runs ...
editing_enter(w) == [w EXCEPT !.last_data_saved = FALSE]

\* Faulty variant: the decorator does not drop the cached summary.
editing_exit_keeps_repr(w, io) ==
    IF ~Ok(w)
    THEN w
    ELSE IF w.save_on_edit THEN save(w, TRUE, NoPath, io) ELSE w

\* ... and after it returned `w` (an exception of the function propagates).
editing_exit(w, io) ==
    IF ~Ok(w)
    THEN w
    ELSE LET w1 == _clean_precalculated_results(w)
         IN IF w1.save_on_edit THEN save(w1, TRUE, NoPath, io) ELSE w1

\* The loop of update(): kwds is the keyword list, in the caller's order.
RECURSIVE update_loop(_, _, _)
update_loop(w, kwds, i) ==
    IF i > Len(kwds)
    THEN w
    ELSE IF __check_read_only_true(w, kwds[i].key)
         THEN Raise(w, ReadOnlyKeyError)
         ELSE update_loop(__add_key(w, kwds[i].key), kwds, i + 1)

kwds_dict(kwds) ==
    [k \in {kwds[i].key : i \in 1..Len(kwds)} |->
        \* keyword names are unique
        transform_to_possible_formats(kwds[CHOOSE i \in 1..Len(kwds) : kwds[i].key = k].value)]

update_body(w, kwds) ==
    LET w1 == update_loop(w, kwds, 1)
    IN IF ~Ok(w1)
       THEN w1
       ELSE [w1 EXCEPT !.data = dict_update(@, kwds_dict(kwds)),
                       !.written = DOMAIN kwds_dict(kwds)]

update(w, kwds, io) == editing_exit(update_body(editing_enter(w), kwds), io)

\* _update(**kwds): used by the loader; no lock check, no dirty key.
_update(w, kwds) ==
    [w EXCEPT !.attrs = @ \cup DOMAIN kwds, !.data = dict_update(@, kwds)]

_load_from_h5(w, filepath) == _update(w, open_h5(w.files, rstrip_h5(filepath) \o Suffix))

pop_body(w, key) ==
    IF __check_read_only_true(w, key)
    THEN Raise(w, ReadOnlyKeyError)
    ELSE LET w1 == __del_key(w, key)
         IN IF ~Ok(w1)
            THEN w1
            ELSE IF key \notin DOMAIN w1.data
                 THEN Raise(w1, KeyErrorExc)
                 ELSE [w1 EXCEPT !.data = dict_pop(@, key), !.written = {key}]

pop(w, key, io) == editing_exit(pop_body(editing_enter(w), key), io)

__setitem__body(w, key, value) ==
    IF __check_read_only_true(w, key)
    THEN Raise(w, ReadOnlyKeyError)
    ELSE LET w1 == __add_key(w, key)
             v == transform_to_possible_formats(value)
         IN IF isinstance_H5NpArray(v)
            THEN IF w1.filepath = NoPath
                 THEN Raise(w1, H5NoFileError)
                 ELSE IF ~w1.save_on_edit
                      THEN Raise(w1, H5NoSaveOnEditError)
                      ELSE [w1 EXCEPT !.data = dict_set(@, key, __init__filepath__(v)),
                                      !.written = {key}]
            ELSE [w1 EXCEPT !.data = dict_set(@, key, v), !.written = {key}]

__setitem__(w, key, value, io) ==
    editing_exit(__setitem__body(editing_enter(w), key, value), io)

__delitem__(w, key, io) == pop(w, key, io)

startswith_underscore(name) == name \in ReservedNames

\* Faulty variant: an attribute goes into the entries as the loader's _update
\* puts it there, past the lock check, the dirty keys and the decorator.
__setattr__unchecked(w, name, value, io) ==
    IF startswith_underscore(name)
    THEN w
    ELSE [_update(w, [k \in {name} |-> transform_to_possible_formats(value)])
             EXCEPT !.written = {name}]

\* object.__setattr__ of a '_' name sets an ordinary attribute of the object,
\* none of the fields below.
__setattr__(w, name, value, io) ==
    IF startswith_underscore(name)
    THEN w
    ELSE __setitem__(w, name, value, io)

\* object.__delattr__ of a key: the object has no such attribute.
__delattr__(w, name, io) ==
    IF name \in DOMAIN w.data
    THEN __delitem__(w, name, io)
    ELSE Raise(w, AttributeErrorExc)

_get_repr(w) ==
    IF ~w.repr.cached
    THEN [w EXCEPT !.repr = [cached |-> TRUE, text |-> output_dict_structure(w.data)]]
    ELSE w

Range(seq) == {seq[i] : i \in 1..Len(seq)}

\* The argument `keys` / `remove_keys`: None, one str, or an iterable of keys.
KeysNone == [kind |-> "None", seq |-> << >>]
KeysStr(k) == [kind |-> "str", seq |-> <<k>>]
KeysIter(q) == [kind |-> "iter", seq |-> q]

\* Faulty variant: lock_data without the guard against the global read-only mode.
lock_data_unguarded(w, keys) ==
    LET ro == IF w.read_only.tag # "set" THEN {} ELSE w.read_only.keys
        ks == IF keys.kind = "None" THEN DOMAIN w.data ELSE Range(keys.seq)
    IN [w EXCEPT !.read_only = RoSet(ro \cup ks)]

\* Faulty variant: lock_data() without keys locks every key, present or not.
lock_data_every_key(w, keys) ==
    IF w.read_only.tag = "True"
    THEN Raise(w, LockError)
    ELSE LET ro == IF w.read_only.tag # "set" THEN {} ELSE w.read_only.keys
             ks == IF keys.kind = "None" THEN Keys ELSE Range(keys.seq)
         IN [w EXCEPT !.read_only = RoSet(ro \cup ks)]

lock_data(w, keys) ==
    IF w.read_only.tag = "True"
    THEN Raise(w, LockError)
    ELSE LET ro == IF w.read_only.tag # "set" THEN {} ELSE w.read_only.keys
             ks == IF keys.kind = "None" THEN DOMAIN w.data ELSE Range(keys.seq)
         IN [w EXCEPT !.read_only = RoSet(ro \cup ks)]

\* for key in remove_keys: self._read_only.remove(key)
RECURSIVE clean_lock_loop(_, _, _)
clean_lock_loop(w, seq, i) ==
    IF i > Len(seq)
    THEN w
    ELSE IF seq[i] \notin w.read_only.keys
         THEN Raise(w, KeyErrorExc)
         ELSE clean_lock_loop([w EXCEPT !.read_only = RoSet(@.keys \ {seq[i]})], seq, i + 1)

clean_lock(w, remove_keys) ==
    IF w.read_only.tag = "True"
    THEN Raise(w, UnlockError)
    ELSE IF w.read_only.tag = "set"
         THEN IF remove_keys.kind = "None"
              THEN [w EXCEPT !.read_only = RoFalse]
              ELSE clean_lock_loop(w, remove_keys.seq, 1)
         ELSE w

\* The object before __init__ ran: the class attributes and an empty __dict__.
NewObject(disk) ==
    [data |-> EmptyDict, attrs |-> {}, last_update |-> {}, save_on_edit |-> FALSE,
     read_only |-> RoFalse, filepath |-> NoPath, last_data_saved |-> FALSE,
     repr |-> ReprNone, files |-> disk, calls |-> << >>,
     written |-> {}, exc |-> NoExc]

OverwriteArgs == {"None", "True", "False"}

os_remove(files, filename) == [f \in DOMAIN files \ {filename} |-> files[f]]

__init__(disk, filepath, save_on_edit, read_only, overwrite) ==
    LET ov == overwrite = "True"
        ro == IF read_only.tag = "None"
              THEN IF (~save_on_edit /\ ~ov) /\ filepath # NoPath THEN RoTrue ELSE RoFalse
              ELSE read_only
        w0 == [NewObject(disk) EXCEPT !.save_on_edit = save_on_edit, !.read_only = ro]
        fp == rstrip_h5(filepath) \o Suffix
    IN IF filepath = NoPath
       THEN w0
       ELSE IF (ov \/ save_on_edit) /\ Truthy(ro)
            THEN Raise(w0, InitModeError)
            ELSE IF fp \in DOMAIN w0.files
                 THEN IF overwrite = "None" /\ ~Truthy(ro)
                      THEN Raise(w0, InitExistsError)
                      ELSE LET w1 == IF ov /\ ~Truthy(ro)
                                     THEN [w0 EXCEPT !.files = os_remove(@, fp)]
                                     ELSE w0
                               w2 == IF Truthy(ro) \/ (~Truthy(ro) /\ ~ov)
                                     THEN _load_from_h5(w1, fp)
                                     ELSE w1
                           IN IF ~Truthy(ro) THEN [w2 EXCEPT !.filepath = fp] ELSE w2
                 ELSE IF Truthy(ro)
                      THEN Raise(w0, InitMissingError)
                      ELSE [w0 EXCEPT !.filepath = fp]

\* ------------------------------------------------------------------ state
VARIABLES
    _data,             \* self._data: key -> value
    _attrs,            \* self._attrs
    _last_update,      \* self._last_update: the dirty keys
    _save_on_edit,     \* self._save_on_edit
    _read_only,        \* self._read_only
    _filepath,         \* self._filepath
    _last_data_saved,  \* self._last_data_saved
    _repr,             \* self._repr
    files,             \* the disk: file name -> content of the .h5 file
    phase,             \* "new" before __init__, "live" after, "failed" if it raised
    err,               \* the exception the last call raised, NoExc if none
    touched,           \* keys the calls wrote in _data since the last successful save
    ncalls             \* number of calls made on the container

vars == <<_data, _attrs, _last_update, _save_on_edit, _read_only, _filepath,
          _last_data_saved, _repr, files, phase, err, touched, ncalls>>

\* The object as the record the methods work on.
Self ==
    [data |-> _data, attrs |-> _attrs, last_update |-> _last_update,
     save_on_edit |-> _save_on_edit, read_only |-> _read_only, filepath |-> _filepath,
     last_data_saved |-> _last_data_saved, repr |-> _repr,
     files |-> files, calls |-> << >>, written |-> {}, exc |-> NoExc]

\* A call returned (or raised) leaving the object as `r`.
Return(r) ==
    /\ _data' = r.data
    /\ _attrs' = r.attrs
    /\ _last_update' = r.last_update
    /\ _save_on_edit' = r.save_on_edit
    /\ _read_only' = r.read_only
    /\ _filepath' = r.filepath
    /\ _last_data_saved' = r.last_data_saved
    /\ _repr' = r.repr
    /\ files' = r.files
    /\ err' = r.exc
    /\ touched' = IF r.calls # << >> /\ Ok(r) THEN {} ELSE touched \cup r.written

Init ==
    /\ files \in InitialDisks
    /\ phase = "new"
    /\ _data = EmptyDict
    /\ _attrs = {}
    /\ _last_update = {}
    /\ _save_on_edit = FALSE
    /\ _read_only = RoFalse
    /\ _filepath = NoPath
    /\ _last_data_saved = FALSE
    /\ _repr = ReprNone
    /\ err = NoExc
    /\ touched = {}
    /\ ncalls = 0

\* AnalysisData(filepath, save_on_edit, read_only, overwrite)
Construct ==
    /\ phase = "new"
    /\ \E filepath \in InitPathArgs, save_on_edit \in BOOLEAN,
          read_only \in ReadOnlyArgs, overwrite \in OverwriteArgs :
          LET r == __init__(files, filepath, save_on_edit, read_only, overwrite)
          IN /\ Return(r)
             /\ phase' = IF Ok(r) THEN "live" ELSE "failed"
    /\ UNCHANGED ncalls

\* Whether the write of save_dict succeeds matters to a call that may save.
IoOutcomes == IF _save_on_edit THEN BOOLEAN ELSE {TRUE}

Live ==
    /\ phase = "live"
    /\ ncalls < MaxCalls
    /\ ncalls' = ncalls + 1
    /\ UNCHANGED phase

\* data[key] = value
SetItem ==
    /\ Live
    /\ \E key \in Keys, value \in ValueArgs, io \in IoOutcomes :
          Return(__setitem__(Self, key, value, io))

\* data.name = value
SetAttr ==
    /\ Live
    /\ \E name \in AttrNames, value \in ValueArgs, io \in IoOutcomes :
          Return(__setattr__(Self, name, value, io))

\* Key lists without repetition, at most n long.
RECURSIVE KeyLists(_)
KeyLists(n) ==
    IF n = 0
    THEN {<< >>}
    ELSE LET shorter == KeyLists(n - 1)
         IN shorter \cup
            {Append(q, k) : q \in {x \in shorter : Len(x) = n - 1}, k \in Keys}

NoRepeat(q) == \A i, j \in 1..Len(q) : i # j => q[i] # q[j]

\* Keyword lists of update(): distinct names in any order, at most MaxKwds,
\* every keyword of one call given the same plain value.
KwdLists ==
    {[i \in 1..Len(q) |-> [key |-> q[i], value |-> v]] :
        q \in {x \in KeyLists(MaxKwds) : NoRepeat(x)}, v \in PlainArgs}

\* data.update(**kwds)
Update ==
    /\ Live
    /\ \E kwds \in KwdLists, io \in IoOutcomes :
          Return(update(Self, kwds, io))

\* The arguments of lock_data and clean_lock: None, one key as a str, or a
\* list of several keys.
KeysArgs ==
    {KeysNone} \cup {KeysStr(k) : k \in Keys}
               \cup {KeysIter(q) : q \in {x \in KeyLists(MaxKwds) : NoRepeat(x) /\ Len(x) > 1}}

\* data.pop(key)
Pop ==
    /\ Live
    /\ \E key \in Keys, io \in IoOutcomes :
          Return(pop(Self, key, io))

\* del data[key]
DelItem ==
    /\ Live
    /\ \E key \in Keys, io \in IoOutcomes :
          Return(__delitem__(Self, key, io))

\* del data.name
DelAttr ==
    /\ Live
    /\ \E name \in Keys, io \in IoOutcomes :
          Return(__delattr__(Self, name, io))

\* data.lock_data(keys)
LockData ==
    /\ Live
    /\ \E keys \in KeysArgs :
          Return(lock_data(Self, keys))

\* data.clean_lock(remove_keys)
CleanLock ==
    /\ Live
    /\ \E keys \in KeysArgs :
          Return(clean_lock(Self, keys))

\* data.save(just_update, filepath)
Save ==
    /\ Live
    /\ \E just_update \in BOOLEAN, filepath \in SavePathArgs, io \in BOOLEAN :
          Return(save(Self, just_update, filepath, io))

\* repr(data)
Repr ==
    /\ Live
    /\ Return(_get_repr(Self))

Next ==
    \/ Construct
    \/ SetItem
    \/ SetAttr
    \/ Update
    \/ Pop
    \/ DelItem
    \/ DelAttr
    \/ LockData
    \/ CleanLock
    \/ Save
    \/ Repr

Spec == Init /\ [][Next]_vars

\* ------------------------------------------------------------------ properties
\* The lock states of the specification.
FullyLocked == _read_only.tag = "True"
PartiallyLocked == _read_only.tag = "set"
Unlocked == _read_only.tag = "False"

\* The call left entries, known_keys and dirty_keys as they were.
Untouched(r) ==
    /\ r.data = _data
    /\ r.attrs = _attrs
    /\ r.last_update = _last_update

\* The call was refused with the read-only error and changed no key.
Rejected(r) == r.exc = ReadOnlyKeyError /\ Untouched(r)

\* The call stored `value` under `key`.
Stored(r, key, value) ==
    /\ r.data = dict_set(_data, key, transform_to_possible_formats(value))
    /\ r.attrs = _attrs \cup {key}

\* The call removed `key`.
Removed(r, key) ==
    /\ r.data = dict_pop(_data, key)
    /\ r.attrs = _attrs \ {key}

\* The single-key calls of C1 on `key`, as the objects they leave.
SetCalls(key, values, io) ==
    {__setitem__(Self, key, value, io) : value \in values}
        \cup {__setattr__(Self, key, value, io) : value \in values}
DelCalls(key, io) == {__delitem__(Self, key, io), pop(Self, key, io)}

\* C1 as stated: on a partially-locked container with locked set S, an item
\* set, attribute set, item delete or pop of a key in S fails with the
\* read-only error and leaves entries, known_keys and dirty_keys as they were;
\* the same call on a key outside S (plain value; key present for delete and
\* pop) succeeds and is applied.
C1_ReadOnlyContainmentAsStated ==
    (phase = "live" /\ PartiallyLocked) =>
        \A key \in Keys, io \in BOOLEAN :
            IF key \in _read_only.keys
            THEN \A r \in SetCalls(key, ValueArgs, io) \cup DelCalls(key, io) : Rejected(r)
            ELSE /\ \A value \in PlainArgs :
                        \A r \in SetCalls(key, {value}, io) : Ok(r) /\ Stored(r, key, value)
                 /\ key \in DOMAIN _data =>
                        \A r \in DelCalls(key, io) : Ok(r) /\ Removed(r, key)

\* The call raised nothing, unless the incremental save it triggered failed:
\* it raises exactly when auto-save is on and the container has no file path
\* or the codec's write fails.
OkUnlessAutoSaveFailed(r, io) ==
    r.exc = IF ~_save_on_edit THEN NoExc
            ELSE IF _filepath = NoPath THEN NoFilepathError
            ELSE IF ~io THEN CodecError
            ELSE NoExc

\* C1 amended: a call on a key in S is rejected as stated; a call on a key
\* outside S is applied to entries and known_keys, and raises nothing unless
\* the incremental save that auto_save triggers after it fails.
C1_ReadOnlyContainment ==
    (phase = "live" /\ PartiallyLocked) =>
        \A key \in Keys, io \in BOOLEAN :
            IF key \in _read_only.keys
            THEN \A r \in SetCalls(key, ValueArgs, io) \cup DelCalls(key, io) : Rejected(r)
            ELSE /\ \A value \in PlainArgs :
                        \A r \in SetCalls(key, {value}, io) :
                            OkUnlessAutoSaveFailed(r, io) /\ Stored(r, key, value)
                 /\ key \in DOMAIN _data =>
                        \A r \in DelCalls(key, io) :
                            OkUnlessAutoSaveFailed(r, io) /\ Removed(r, key)

\* A partially-locked container just refused a mutation of a locked key, and
\* holds a key that is not locked.
C1_Witness ==
    /\ phase = "live"
    /\ PartiallyLocked
    /\ err = ReadOnlyKeyError
    /\ _read_only.keys \cap DOMAIN _data # {}
    /\ DOMAIN _data \ _read_only.keys # {}

\* The keys of the mapping the call handed to save_dict.
PayloadKeys(r) == DOMAIN r.calls[1].data

\* C2 as stated (dirty completeness): with auto_save off, the payload an
\* incremental save hands to the codec has exactly the keys that were added,
\* removed or reassigned in entries since the prior save.
C2_DirtyCompleteness ==
    (phase = "live" /\ ~_save_on_edit) =>
        \A filepath \in SavePathArgs, io \in BOOLEAN :
            LET r == save(Self, TRUE, filepath, io)
            IN r.calls # << >> => PayloadKeys(r) = touched

\* Every public call on the current object, as the object it leaves.
MutationCalls(io) ==
    UNION {SetCalls(key, ValueArgs, io) \cup DelCalls(key, io)
               \cup {__delattr__(Self, key, io)} : key \in Keys}
        \cup {__setattr__(Self, name, value, io) : name \in ReservedNames, value \in ValueArgs}
        \cup {update(Self, kwds, io) : kwds \in KwdLists}
LockCalls == {lock_data(Self, keys) : keys \in KeysArgs}
UnlockCalls == {clean_lock(Self, keys) : keys \in KeysArgs}
SaveCalls(io) ==
    {save(Self, just_update, filepath, io) :
        just_update \in BOOLEAN, filepath \in SavePathArgs}
AllCalls(io) ==
    MutationCalls(io) \cup LockCalls \cup UnlockCalls \cup SaveCalls(io) \cup {_get_repr(Self)}

\* C3 (lock monotonicity): a FULLY_LOCKED container stays FULLY_LOCKED under
\* every public call; lock and unlock fail with the lock error.
C3_LockMonotonic ==
    (phase = "live" /\ FullyLocked) =>
        /\ \A io \in BOOLEAN : \A r \in AllCalls(io) : r.read_only = RoTrue
        /\ \A r \in LockCalls : r.exc = LockError
        /\ \A r \in UnlockCalls : r.exc = UnlockError

\* A FULLY_LOCKED container on which lock() was just refused.
C3_Witness == phase = "live" /\ FullyLocked /\ err = LockError

\* C4 as stated: a save that fails leaves dirty_keys as they were before it.
C4_FailedSaveKeepsDirty ==
    phase = "live" =>
        \A io \in BOOLEAN : \A r \in SaveCalls(io) :
            ~Ok(r) => r.last_update = _last_update

\* The object after a call that returned, ready for the next call.
Then(w) == [w EXCEPT !.calls = << >>, !.written = {}]

\* An unlocked container that holds exactly the keys a and b.
HoldsAB == phase = "live" /\ Unlocked /\ DOMAIN _data = {"a", "b"} /\ _attrs = {"a", "b"}

\* C5 as stated (scenario C): after lock() without keys on an unlocked
\* container holding a and b, setting the new key c fails with the read-only
\* error, a and b are unchanged and known_keys is {a, b}.
C5_LockAllRejectsNewKeyAsStated ==
    HoldsAB =>
        LET locked == Then(lock_data(Self, KeysNone))
        IN \A value \in ValueArgs, io \in BOOLEAN :
               LET r == __setitem__(locked, "c", value, io)
               IN r.exc = ReadOnlyKeyError /\ r.data = _data /\ r.attrs = {"a", "b"}

\* C5 amended: lock() without keys locks the keys present at the call, here
\* a and b, so setting a or b fails with the read-only error and changes
\* nothing, while setting the new key c is not refused by the lock: with a
\* plain value c is stored, a and b are unchanged and known_keys is {a, b, c}.
C5_LockAllLocksCurrentKeys ==
    HoldsAB =>
        LET locked == Then(lock_data(Self, KeysNone))
        IN /\ Ok(locked)
           /\ locked.read_only = RoSet({"a", "b"})
           /\ \A value \in ValueArgs, io \in BOOLEAN :
                  /\ \A key \in {"a", "b"} :
                         LET r == __setitem__(locked, key, value, io)
                         IN Rejected(r) /\ r.read_only = locked.read_only
                  /\ LET r == __setitem__(locked, "c", value, io)
                     IN /\ r.exc # ReadOnlyKeyError
                        /\ value \in PlainArgs =>
                               /\ Stored(r, "c", value)
                               /\ r.attrs = {"a", "b", "c"}
                               /\ OkUnlessAutoSaveFailed(r, io)

\* lock() locked a and b, and c was set afterwards.
C5_Witness ==
    /\ phase = "live"
    /\ _read_only = RoSet({"a", "b"})
    /\ DOMAIN _data = {"a", "b", "c"}
    /\ _attrs = {"a", "b", "c"}
    /\ err = NoExc

\* C6 as stated (invariant I1): between calls, known_keys is the key set of
\* entries.
C6_KnownKeysAreEntryKeys == phase = "live" => _attrs = DOMAIN _data

\* The key is protected in the current lock state.
Protected(key) == FullyLocked \/ (PartiallyLocked /\ key \in _read_only.keys)

KwdKeys(kwds) == {kwds[i].key : i \in 1..Len(kwds)}

\* C7 as stated: a bulk update that names a protected key, at any position,
\* fails with the read-only error and leaves entries, known_keys and
\* dirty_keys as they were.
C7_UpdateAllOrNothing ==
    phase = "live" =>
        \A kwds \in KwdLists, io \in BOOLEAN :
            (\E key \in KwdKeys(kwds) : Protected(key)) => Rejected(update(Self, kwds, io))

\* The entries of a new container opened read-only on `filepath`.
LoadFrom(disk, filepath) == __init__(disk, filepath, FALSE, RoNone, "None").data

\* The call handed the codec one incremental payload for the bound file with
\* exactly the keys `ks` and their current values, left no dirty key, and a
\* fresh load from the file sees the values of `ks`.
Flushed(r, ks) ==
    /\ Len(r.calls) = 1
    /\ r.calls[1].filename = _filepath
    /\ PayloadKeys(r) = ks
    /\ r.last_update = {}
    /\ \A k \in ks : r.calls[1].data[k] = dict_get(r.data, k, None)
    /\ \A k \in ks \cap DOMAIN r.data :
           dict_get(LoadFrom(r.files, _filepath), k, None) = r.data[k]

\* C8 as stated: with auto_save on and a bound file path, a mutation that
\* returns has handed the codec an incremental payload whose keys are exactly
\* the keys of that call, with the values set, and dirty_keys is empty.
C8_AutoSaveFlushesCall ==
    (phase = "live" /\ _save_on_edit /\ _filepath # NoPath) =>
        \A io \in BOOLEAN :
            /\ \A key \in Keys :
                   \A r \in SetCalls(key, ValueArgs, io) \cup DelCalls(key, io)
                                \cup {__delattr__(Self, key, io)} :
                       Ok(r) => Flushed(r, {key})
            /\ \A kwds \in KwdLists :
                   LET r == update(Self, kwds, io)
                   IN Ok(r) => Flushed(r, KwdKeys(kwds))

\* C9: on a FULLY_LOCKED container no public call changes entries, known_keys
\* or dirty_keys (no key was ever dirty) or reaches the codec or the disk;
\* every set, attribute set, pop, delete and update naming a key, and every
\* save, fails with the read-only error.
C9_FullyLockedFrozen ==
    (phase = "live" /\ FullyLocked) =>
        /\ _last_update = {}
        /\ touched = {}
        /\ \A io \in BOOLEAN :
               /\ \A r \in AllCalls(io) :
                      Untouched(r) /\ r.calls = << >> /\ r.files = files
               /\ \A key \in Keys :
                      /\ \A r \in SetCalls(key, ValueArgs, io) \cup DelCalls(key, io) :
                             r.exc = ReadOnlyKeyError
                      /\ key \in DOMAIN _data =>
                             __delattr__(Self, key, io).exc = ReadOnlyKeyError
               /\ \A kwds \in KwdLists :
                      kwds # << >> => update(Self, kwds, io).exc = ReadOnlyKeyError
               /\ \A r \in SaveCalls(io) : r.exc = ReadOnlySaveError

\* A FULLY_LOCKED container with entries on which a save was just refused.
C9_Witness ==
    /\ phase = "live"
    /\ FullyLocked
    /\ DOMAIN _data # {}
    /\ err = ReadOnlySaveError

\* C10 as stated (round trip), for a container saving to the file it is
\* bound to: after a successful save to path p, full or incremental, a new
\* container loaded from p has the entries of the saving container.
C10_RoundTrip ==
    (phase = "live" /\ _filepath # NoPath) =>
        \A just_update \in BOOLEAN, filepath \in SavePathArgs, io \in BOOLEAN :
            LET r == save(Self, just_update, filepath, io)
            IN Ok(r) => LoadFrom(r.files, StrOr(filepath, _filepath)) = r.data

\* C11 as stated: AnalysisData(...) with read_only=True together with
\* overwrite=True or save_on_edit=True fails with the configuration error,
\* whether a file path is given or not and whether the file exists or not; no
\* FULLY_LOCKED container with auto_save on is ever constructed.
C11_ContradictoryModeRejected ==
    /\ phase = "new" =>
           \A filepath \in InitPathArgs, save_on_edit \in BOOLEAN, overwrite \in OverwriteArgs :
               (save_on_edit \/ overwrite = "True") =>
                   __init__(files, filepath, save_on_edit, RoTrue, overwrite).exc = InitModeError
    /\ phase = "live" => ~(FullyLocked /\ _save_on_edit)

\* C12 as stated: file_path is bound exactly when a file path was given at
\* construction and the container was not resolved FULLY_LOCKED (read_only
\* False or a set of keys); a FULLY_LOCKED container has no bound file_path,
\* and no call after construction changes the binding.
C12_FilepathBoundIffWritable ==
    /\ phase = "new" =>
           \A filepath \in InitPathArgs, save_on_edit \in BOOLEAN,
              read_only \in ReadOnlyArgs, overwrite \in OverwriteArgs :
               LET r == __init__(files, filepath, save_on_edit, read_only, overwrite)
               IN Ok(r) => ((r.filepath # NoPath) <=>
                                (filepath # NoPath /\ r.read_only.tag # "True"))
    /\ phase = "live" =>
           /\ FullyLocked => _filepath = NoPath
           /\ \A io \in BOOLEAN : \A r \in AllCalls(io) : r.filepath = _filepath

\* The mapping the call handed to save_dict.
Payload(r) == r.calls[1].data

\* The payload maps every key of `gone` to None and every key of `kept` to
\* its value in the entries `data`.
Carries(payload, gone, kept, data) ==
    /\ \A k \in gone : k \in DOMAIN payload /\ payload[k] = None
    /\ \A k \in kept : k \in DOMAIN payload /\ payload[k] = data[k]

\* C13 as stated: the payload of an incremental save, called directly or by
\* auto_save at the end of a mutation, maps every key removed since the last
\* successful save and absent from entries to None, and every dirty key
\* present in entries to its current value.
C13_IncrementalPayload ==
    phase = "live" =>
        \A io \in BOOLEAN :
            /\ \A filepath \in SavePathArgs :
                   LET r == save(Self, TRUE, filepath, io)
                   IN r.calls # << >> =>
                          Carries(Payload(r), touched \ DOMAIN _data,
                                  _last_update \cap DOMAIN _data, _data)
            /\ \A r \in MutationCalls(io) :
                   r.calls # << >> =>
                       Carries(Payload(r), (touched \cup r.written) \ DOMAIN r.data,
                               (_last_update \cup r.written) \cap DOMAIN r.data, r.data)

\* C14 as stated: an item set or attribute set of an array handle that fails
\* with the configuration error (no bound file path, or auto_save off) leaves
\* entries, known_keys and dirty_keys as they were before the call.
C14_H5SetFailureLeavesNoTrace ==
    phase = "live" =>
        \A key \in Keys, io \in BOOLEAN :
            \A r \in SetCalls(key, {H5Arg}, io) :
                r.exc \in {H5NoFileError, H5NoSaveOnEditError} => Untouched(r)

\* C15 (idempotent full save): a successful full save followed directly by a
\* second one to the same path hands the codec the whole of entries both
\* times, for the same file, and the disk after the second is the disk after
\* the first; an incremental save directly after a successful save, direct or
\* triggered by auto_save, hands the codec an empty payload.
C15_IdempotentFullSave ==
    phase = "live" =>
        /\ \A filepath \in SavePathArgs :
               LET r1 == save(Self, FALSE, filepath, TRUE)
                   r2 == save(Then(r1), FALSE, filepath, TRUE)
               IN Ok(r1) =>
                      /\ Ok(r2)
                      /\ Payload(r1) = _data
                      /\ Payload(r2) = Payload(r1)
                      /\ r2.calls[1].filename = r1.calls[1].filename
                      /\ r2.files = r1.files
        /\ \A r1 \in SaveCalls(TRUE) \cup MutationCalls(TRUE) :
               (Ok(r1) /\ r1.calls # << >>) =>
                   \A filepath \in SavePathArgs, io \in BOOLEAN :
                       LET r3 == save(Then(r1), TRUE, filepath, io)
                       IN r3.calls # << >> => Payload(r3) = EmptyDict

\* The state directly after a successful save, where the second save starts:
\* the container loaded a and b from d.h5, c was set, and a save wrote the
\* entries to the file and left no key dirty.
C15_Witness ==
    /\ phase = "live"
    /\ ncalls = 2
    /\ err = NoExc
    /\ ~_save_on_edit
    /\ _last_data_saved
    /\ _last_update = {}
    /\ _filepath = PathDh5
    /\ DOMAIN _data = {"a", "b", "c"}
    /\ files = [f \in {PathDh5} |-> _data]

\* C16 as stated: with auto_save on and no file path, a set, update, pop or
\* delete whose incremental save fails for lack of a path leaves entries and
\* known_keys as they were before the call.
C16_FailedAutoSaveLeavesNoTrace ==
    (phase = "live" /\ _save_on_edit /\ _filepath = NoPath) =>
        \A io \in BOOLEAN :
            \A r \in MutationCalls(io) :
                r.exc = NoFilepathError => (r.data = _data /\ r.attrs = _attrs)

\* The keys locked in the current state.
LockedKeys == IF PartiallyLocked THEN _read_only.keys ELSE {}

\* C17 as stated: on a container that is not FULLY_LOCKED, unlock with
\* keys=None leaves it UNLOCKED; unlock of named keys that are all locked
\* removes exactly those keys from the locked set; unlock naming a key that is
\* not locked, also on an UNLOCKED container, fails with an error.
C17_Unlock ==
    (phase = "live" /\ ~FullyLocked) =>
        /\ LET r == clean_lock(Self, KeysNone)
           IN Ok(r) /\ r.read_only = RoFalse
        /\ \A keys \in KeysArgs \ {KeysNone} :
               LET r == clean_lock(Self, keys)
               IN IF Range(keys.seq) \subseteq LockedKeys
                  THEN Ok(r) /\ r.read_only = RoSet(LockedKeys \ Range(keys.seq))
                  ELSE ~Ok(r)

\* C18: for a name without the reserved prefix, attribute assignment leaves
\* the object, the disk, the codec calls and the error exactly as item
\* assignment of the same key and value does, and attribute deletion of a name
\* present in entries exactly as item deletion does.
C18_AttrIsItem ==
    phase = "live" =>
        \A key \in AttrNames \ ReservedNames, io \in BOOLEAN :
            /\ \A value \in ValueArgs :
                   __setattr__(Self, key, value, io) = __setitem__(Self, key, value, io)
            /\ key \in DOMAIN _data =>
                   __delattr__(Self, key, io) = __delitem__(Self, key, io)

\* An array handle was stored and bound, which only an item or attribute
\* assignment does, in a container with locked keys and auto_save on.
C18_Witness ==
    /\ phase = "live"
    /\ err = NoExc
    /\ _save_on_edit
    /\ PartiallyLocked
    /\ _read_only.keys # {}
    /\ \E key \in DOMAIN _data : _data[key] = H5Bound

\* C19 (summary-cache coherence): a cached summary is the summary of the
\* current entries; a set, update, pop or delete whose mutation was carried
\* out leaves no cached summary, also when the auto-save after it fails; a
\* call that leaves the cached summary in place leaves entries unchanged.
C19_SummaryCoherent ==
    phase = "live" =>
        /\ _repr.cached => _repr.text = output_dict_structure(_data)
        /\ \A io \in BOOLEAN :
               /\ \A r \in MutationCalls(io) : r.written # {} => ~r.repr.cached
               /\ \A r \in AllCalls(io) :
                      r.repr.cached =>
                          (r.data = _data /\ r.repr.text = output_dict_structure(r.data))

\* Entries were changed and the summary was computed after that: the cache
\* holds the summary of the changed entries.
C19_Witness ==
    /\ phase = "live"
    /\ _repr.cached
    /\ touched # {}
    /\ DOMAIN _repr.text = DOMAIN _data
    /\ _data # EmptyDict

\* C20 as stated: save_clean is true exactly when entries were not mutated
\* since the last successful save, the load or the creation: true directly
\* after construction, unchanged by a rejected mutation, and not set to true
\* by a save that fails.
C20_SaveCleanExact ==
    /\ phase = "new" =>
           \A filepath \in InitPathArgs, save_on_edit \in BOOLEAN,
              read_only \in ReadOnlyArgs, overwrite \in OverwriteArgs :
               LET r == __init__(files, filepath, save_on_edit, read_only, overwrite)
               IN Ok(r) => r.last_data_saved
    /\ phase = "live" =>
           /\ _last_data_saved <=> touched = {}
           /\ \A io \in BOOLEAN :
                  /\ \A r \in MutationCalls(io) :
                         r.exc = ReadOnlyKeyError => r.last_data_saved = _last_data_saved
                  /\ \A r \in SaveCalls(io) :
                         ~Ok(r) => r.last_data_saved = _last_data_saved

====
